---- MODULE Spec2Model ----
(***************************************************************************)
(* Model of the two data structures of the repository:                     *)
(*   - ItemHeap: a binary min-heap of ints with a value -> position index,  *)
(*     driven by Go's container/heap (Init, Push, Fix);                     *)
(*   - Trie: a 26-ary prefix tree with soft delete and prefix enumeration.  *)
(* Positions in items are 0-based as in the Go code; the TLA+ sequence      *)
(* items holds position p at items[p+1].  A word is a sequence of bytes.    *)
(* Calls that return a value are operators yielding a record of the new     *)
(* object and the returned value; the actions apply them to the state.      *)
(***************************************************************************)
EXTENDS Integers, Sequences, FiniteSets, TLC

\* ---------------------------------------------------------------- bounds
\* values offered to Insert/Remove are 1..MaxVal
MaxVal == 8
\* Insert is not offered once the heap holds MaxHeapLen items
MaxHeapLen == 6
\* where duplicates are allowed, values offered to Insert are 1..MaxDupVal
MaxDupVal == 3
\* where duplicates are allowed, Insert is not offered beyond MaxDupLen items
MaxDupLen == 4
\* words offered to the trie use the first NumLetters lowercase letters
NumLetters == 2
\* words offered to the trie have at most MaxWordLen characters
MaxWordLen == 2
\* Insert is not offered when it would allocate beyond MaxNodes nodes
MaxNodes == 3

\* ---------------------------------------------------------------- state
VARIABLES
    items,      \* ItemHeap.items, a sequence of ints
    index,      \* ItemHeap.index, a map value -> position (a function on its key set)
    present,    \* history: values inserted and not since removed
    hret,       \* the last heap call: its name, argument and outcome
    nodes,      \* the allocated trie Nodes, nodes[id], in allocation order
    root,       \* Trie.root, the id of the root Node
    inserted,   \* history: words ever passed to a completed Insert
    live,       \* history: words whose latest Insert/successful Delete is an Insert
    tret        \* the last trie call: its name and outcome

heapVars == <<items, index, present, hret>>
trieVars == <<nodes, root, inserted, live, tret>>
vars == <<items, index, present, hret, nodes, root, inserted, live, tret>>

\* ---------------------------------------------------------------- helpers
\* Go's integer division truncates toward zero
GoDiv(a, b) == IF a >= 0 THEN a \div b ELSE -((-a) \div b)

\* m[k] = v on a Go map
MapPut(m, k, v) == [y \in (DOMAIN m) \cup {k} |-> IF y = k THEN v ELSE m[y]]

\* delete(m, k) on a Go map
MapDelete(m, k) == [y \in (DOMAIN m) \ {k} |-> m[y]]

Range(s) == {s[p] : p \in DOMAIN s}

EmptyMap == [y \in {} |-> 0]

\* ---------------------------------------------------------------- ItemHeap
\* A heap value is a record [items, index].

NewItemHeap == [items |-> <<>>, index |-> EmptyMap]

HLen(h) == Len(h.items)

LessFlipped(h, i, j) == h.items[i + 1] > h.items[j + 1]

Less(h, i, j) == h.items[i + 1] < h.items[j + 1]

SwapNoIndex(h, i, j) ==
    [items |-> [h.items EXCEPT ![i + 1] = h.items[j + 1], ![j + 1] = h.items[i + 1]],
     index |-> h.index]

Swap(h, i, j) ==
    LET it == [h.items EXCEPT ![i + 1] = h.items[j + 1], ![j + 1] = h.items[i + 1]]
        ix1 == MapPut(h.index, it[i + 1], i)
        ix2 == MapPut(ix1, it[j + 1], j)
    IN  [items |-> it, index |-> ix2]

PushRejectsDuplicate(h, x) ==
    IF x \in DOMAIN h.index
    THEN h
    ELSE [items |-> Append(h.items, x), index |-> MapPut(h.index, x, Len(h.items))]

Push(h, x) ==
    [items |-> Append(h.items, x), index |-> MapPut(h.index, x, Len(h.items))]

\* container/heap.up
RECURSIVE up(_, _)
up(h, j) ==
    LET i == GoDiv(j - 1, 2)
    IN  IF i = j \/ ~Less(h, j, i)
        THEN h
        ELSE up(Swap(h, i, j), i)

RECURSIVE downLoopWrongChild(_, _, _)
downLoopWrongChild(h, i, n) ==
    LET j1 == 2 * i
        j2 == j1 + 1
        j  == IF j2 < n /\ Less(h, j2, j1) THEN j2 ELSE j1
    IN  IF j1 >= n \/ j1 < 0
        THEN [h |-> h, i |-> i]
        ELSE IF ~Less(h, j, i)
             THEN [h |-> h, i |-> i]
             ELSE downLoopWrongChild(Swap(h, i, j), j, n)

\* the loop of container/heap.down; yields the heap and the final position
RECURSIVE downLoop(_, _, _)
downLoop(h, i, n) ==
    LET j1 == 2 * i + 1
        j2 == j1 + 1
        j  == IF j2 < n /\ Less(h, j2, j1) THEN j2 ELSE j1
    IN  IF j1 >= n \/ j1 < 0
        THEN [h |-> h, i |-> i]
        ELSE IF ~Less(h, j, i)
             THEN [h |-> h, i |-> i]
             ELSE downLoop(Swap(h, i, j), j, n)

downNoSift(h, i0, n) == [h |-> h, moved |-> FALSE]

\* container/heap.down: the heap and whether the element moved
down(h, i0, n) ==
    LET r == downLoop(h, i0, n)
    IN  [h |-> r.h, moved |-> r.i > i0]

heapFixDownOnly(h, i) == down(h, i, HLen(h)).h

\* container/heap.Fix
heapFix(h, i) ==
    LET d == down(h, i, HLen(h))
    IN  IF ~d.moved THEN up(d.h, i) ELSE d.h

\* container/heap.Push
heapPush(h, x) ==
    LET h1 == Push(h, x)
    IN  up(h1, HLen(h1) - 1)

\* the loop of container/heap.Init: for i := n/2 - 1; i >= 0; i--
RECURSIVE heapInitLoop(_, _, _)
heapInitLoop(h, i, n) ==
    IF i < 0 THEN h ELSE heapInitLoop(down(h, i, n).h, i - 1, n)

\* ItemHeap.Init
HeapInit(h) == heapInitLoop(h, GoDiv(HLen(h), 2) - 1, HLen(h))

\* ItemHeap.Insert
HeapInsert(h, x) == heapPush(h, x)

GetMinZeroOnEmpty(h) ==
    IF HLen(h) = 0
    THEN [panicked |-> FALSE, val |-> 0]
    ELSE [panicked |-> FALSE, val |-> h.items[1]]

\* ItemHeap.GetMin: items[0], an out-of-range panic on an empty heap
GetMin(h) ==
    IF HLen(h) = 0
    THEN [panicked |-> TRUE, val |-> 0]
    ELSE [panicked |-> FALSE, val |-> h.items[1]]

RemoveKeepIndex(h, x) ==
    IF x \notin DOMAIN h.index
    THEN [h |-> h, ok |-> FALSE]
    ELSE LET i    == h.index[x]
             last == HLen(h) - 1
             h1   == Swap(h, i, last)
             h2   == [items |-> SubSeq(h1.items, 1, last), index |-> h1.index]
         IN  [h |-> IF i < HLen(h2) THEN heapFix(h2, i) ELSE h2, ok |-> TRUE]

RemoveAbsentPops(h, x) ==
    IF x \notin DOMAIN h.index
    THEN [h |-> IF HLen(h) = 0 THEN h
                ELSE [items |-> SubSeq(h.items, 1, HLen(h) - 1),
                      index |-> MapDelete(h.index, h.items[HLen(h)])],
          ok |-> FALSE]
    ELSE LET i    == h.index[x]
             last == HLen(h) - 1
             h1   == Swap(h, i, last)
             h2   == [items |-> SubSeq(h1.items, 1, last), index |-> MapDelete(h1.index, x)]
         IN  [h |-> IF i < HLen(h2) THEN heapFix(h2, i) ELSE h2, ok |-> TRUE]

\* ItemHeap.Remove: the heap afterwards and the returned bool
Remove(h, x) ==
    IF x \notin DOMAIN h.index
    THEN [h |-> h, ok |-> FALSE]
    ELSE LET i    == h.index[x]
             last == HLen(h) - 1
             h1   == Swap(h, i, last)
             h2   == [items |-> SubSeq(h1.items, 1, last), index |-> MapDelete(h1.index, x)]
         IN  [h |-> IF i < HLen(h2) THEN heapFix(h2, i) ELSE h2, ok |-> TRUE]

\* the heap object of the current state
H == [items |-> items, index |-> index]

HeapValues == 1 .. MaxVal

HRet(name, arg, ok, val, panicked) ==
    [name |-> name, arg |-> arg, ok |-> ok, val |-> val, panicked |-> panicked]

\* ---------------------------------------------------------------- heap actions
\* h.Init()
DoInit ==
    /\ items' = HeapInit(H).items
    /\ index' = HeapInit(H).index
    /\ hret' = HRet("Init", 0, TRUE, 0, FALSE)
    /\ UNCHANGED <<present>>
    /\ UNCHANGED trieVars

\* h.Insert(x) with x not currently in the heap (values pairwise distinct)
DoInsert ==
    \E x \in HeapValues :
        /\ Len(items) < MaxHeapLen
        /\ x \notin Range(items)
        /\ items' = HeapInsert(H, x).items
        /\ index' = HeapInsert(H, x).index
        /\ present' = present \cup {x}
        /\ hret' = HRet("Insert", x, TRUE, 0, FALSE)
        /\ UNCHANGED trieVars

\* h.Insert(x), x already in the heap or not
DoInsertAny ==
    \E x \in 1 .. MaxDupVal :
        /\ Len(items) < MaxDupLen
        /\ items' = HeapInsert(H, x).items
        /\ index' = HeapInsert(H, x).index
        /\ present' = present \cup {x}
        /\ hret' = HRet("Insert", x, TRUE, 0, FALSE)
        /\ UNCHANGED trieVars

\* h.Remove(x), x present or not
DoRemove ==
    \E x \in HeapValues :
        LET r == Remove(H, x)
        IN  /\ items' = r.h.items
            /\ index' = r.h.index
            /\ present' = IF r.ok THEN present \ {x} ELSE present
            /\ hret' = HRet("Remove", x, r.ok, 0, FALSE)
            /\ UNCHANGED trieVars

\* h.GetMin()
DoGetMin ==
    LET r == GetMin(H)
    IN  /\ hret' = HRet("GetMin", 0, ~r.panicked, r.val, r.panicked)
        /\ UNCHANGED <<items, index, present>>
        /\ UNCHANGED trieVars


\* ---------------------------------------------------------------- Trie
\* A trie value is a record [nodes, root]: nodes[id] is the Node a pointer id
\* refers to, Nil is the nil pointer, and NewNode() allocates the next id.
\* A word is a sequence of bytes.

alphabetSize == 26

LowerA == 97

LowerZ == 122

Nil == 0

\* the zero-valued Node that NewNode returns a pointer to
NewNode == [children |-> [c \in 0 .. alphabetSize - 1 |-> Nil], isEndOfWord |-> FALSE]

NewTrie == [nodes |-> <<NewNode>>, root |-> 1]

\* the index of a lowercase letter, or a panic
charToIndex(char) ==
    IF char >= LowerA /\ char <= LowerZ
    THEN [panicked |-> FALSE, idx |-> char - LowerA]
    ELSE [panicked |-> TRUE, idx |-> 0]

\* the letter of an index, or a panic
indexToChar(i) ==
    IF i >= 0 /\ i < alphabetSize
    THEN [panicked |-> FALSE, char |-> LowerA + i]
    ELSE [panicked |-> TRUE, char |-> 0]

RECURSIVE InsertLoopStopsAtMissing(_, _, _, _)
InsertLoopStopsAtMissing(ns, cur, word, i) ==
    IF i >= Len(word)
    THEN [nodes |-> [ns EXCEPT ![cur].isEndOfWord = TRUE], panicked |-> FALSE]
    ELSE LET c == charToIndex(word[i + 1])
         IN  IF c.panicked
             THEN [nodes |-> ns, panicked |-> TRUE]
             ELSE IF ns[cur].children[c.idx] = Nil
                  THEN [nodes |-> ns, panicked |-> FALSE]
                  ELSE InsertLoopStopsAtMissing(ns, ns[cur].children[c.idx], word, i + 1)

RECURSIVE InsertLoopFlagsOnAbort(_, _, _, _)
InsertLoopFlagsOnAbort(ns, cur, word, i) ==
    IF i >= Len(word)
    THEN [nodes |-> [ns EXCEPT ![cur].isEndOfWord = TRUE], panicked |-> FALSE]
    ELSE LET c == charToIndex(word[i + 1])
         IN  IF c.panicked
             THEN [nodes |-> [ns EXCEPT ![cur].isEndOfWord = TRUE], panicked |-> TRUE]
             ELSE LET ns1 == IF ns[cur].children[c.idx] = Nil
                             THEN Append([ns EXCEPT ![cur].children[c.idx] = Len(ns) + 1],
                                         NewNode)
                             ELSE ns
                  IN  InsertLoopFlagsOnAbort(ns1, ns1[cur].children[c.idx], word, i + 1)

\* the loop of Trie.Insert from position i with currentNode = cur, and the
\* assignment after it
RECURSIVE InsertLoop(_, _, _, _)
InsertLoop(ns, cur, word, i) ==
    IF i >= Len(word)
    THEN [nodes |-> [ns EXCEPT ![cur].isEndOfWord = TRUE], panicked |-> FALSE]
    ELSE LET c == charToIndex(word[i + 1])
         IN  IF c.panicked
             THEN [nodes |-> ns, panicked |-> TRUE]
             ELSE LET ns1 == IF ns[cur].children[c.idx] = Nil
                             THEN Append([ns EXCEPT ![cur].children[c.idx] = Len(ns) + 1],
                                         NewNode)
                             ELSE ns
                  IN  InsertLoop(ns1, ns1[cur].children[c.idx], word, i + 1)

\* Trie.Insert: the trie afterwards and whether the call panicked
Insert(t, word) ==
    LET r == InsertLoop(t.nodes, t.root, word, 0)
    IN  [t |-> [nodes |-> r.nodes, root |-> t.root], panicked |-> r.panicked]

RECURSIVE SearchLoopPrefixHit(_, _, _, _)
SearchLoopPrefixHit(ns, cur, word, i) ==
    IF i >= Len(word)
    THEN [ok |-> TRUE, panicked |-> FALSE]
    ELSE LET c == charToIndex(word[i + 1])
         IN  IF c.panicked
             THEN [ok |-> FALSE, panicked |-> TRUE]
             ELSE IF ns[cur].children[c.idx] = Nil
                  THEN [ok |-> FALSE, panicked |-> FALSE]
                  ELSE SearchLoopPrefixHit(ns, ns[cur].children[c.idx], word, i + 1)

\* the loop of Trie.Search and the return after it
RECURSIVE SearchLoop(_, _, _, _)
SearchLoop(ns, cur, word, i) ==
    IF i >= Len(word)
    THEN [ok |-> ns[cur].isEndOfWord, panicked |-> FALSE]
    ELSE LET c == charToIndex(word[i + 1])
         IN  IF c.panicked
             THEN [ok |-> FALSE, panicked |-> TRUE]
             ELSE IF ns[cur].children[c.idx] = Nil
                  THEN [ok |-> FALSE, panicked |-> FALSE]
                  ELSE SearchLoop(ns, ns[cur].children[c.idx], word, i + 1)

\* Trie.Search: the returned bool, or a panic
Search(t, word) == SearchLoop(t.nodes, t.root, word, 0)

\* the loop of Trie.StartsWith and the return after it
RECURSIVE StartsWithLoop(_, _, _, _)
StartsWithLoop(ns, cur, prefix, i) ==
    IF i >= Len(prefix)
    THEN [ok |-> TRUE, panicked |-> FALSE]
    ELSE LET c == charToIndex(prefix[i + 1])
         IN  IF c.panicked
             THEN [ok |-> FALSE, panicked |-> TRUE]
             ELSE IF ns[cur].children[c.idx] = Nil
                  THEN [ok |-> FALSE, panicked |-> FALSE]
                  ELSE StartsWithLoop(ns, ns[cur].children[c.idx], prefix, i + 1)

\* Trie.StartsWith: the returned bool, or a panic
StartsWith(t, prefix) == StartsWithLoop(t.nodes, t.root, prefix, 0)

RECURSIVE DeleteLoopPrunes(_, _, _, _)
DeleteLoopPrunes(ns, cur, word, i) ==
    IF i >= Len(word)
    THEN IF ~ns[cur].isEndOfWord
         THEN [nodes |-> ns, ok |-> FALSE, panicked |-> FALSE]
         ELSE [nodes |-> [ns EXCEPT ![cur].isEndOfWord = FALSE],
               ok |-> TRUE, panicked |-> FALSE]
    ELSE LET c == charToIndex(word[i + 1])
         IN  IF c.panicked
             THEN [nodes |-> ns, ok |-> FALSE, panicked |-> TRUE]
             ELSE IF ns[cur].children[c.idx] = Nil
                  THEN [nodes |-> ns, ok |-> FALSE, panicked |-> FALSE]
                  ELSE IF i + 1 = Len(word) /\ ns[ns[cur].children[c.idx]].isEndOfWord
                       THEN [nodes |-> [ns EXCEPT ![ns[cur].children[c.idx]].isEndOfWord = FALSE,
                                                  ![cur].children[c.idx] = Nil],
                             ok |-> TRUE, panicked |-> FALSE]
                       ELSE DeleteLoopPrunes(ns, ns[cur].children[c.idx], word, i + 1)

RECURSIVE DeleteLoopClearsPath(_, _, _, _)
DeleteLoopClearsPath(ns, cur, word, i) ==
    IF i >= Len(word)
    THEN IF ~ns[cur].isEndOfWord
         THEN [nodes |-> ns, ok |-> FALSE, panicked |-> FALSE]
         ELSE [nodes |-> [ns EXCEPT ![cur].isEndOfWord = FALSE],
               ok |-> TRUE, panicked |-> FALSE]
    ELSE LET c == charToIndex(word[i + 1])
         IN  IF c.panicked
             THEN [nodes |-> ns, ok |-> FALSE, panicked |-> TRUE]
             ELSE IF ns[cur].children[c.idx] = Nil
                  THEN [nodes |-> ns, ok |-> FALSE, panicked |-> FALSE]
                  ELSE DeleteLoopClearsPath([ns EXCEPT ![cur].isEndOfWord = FALSE],
                                            ns[cur].children[c.idx], word, i + 1)

RECURSIVE DeleteLoopNoFlagCheck(_, _, _, _)
DeleteLoopNoFlagCheck(ns, cur, word, i) ==
    IF i >= Len(word)
    THEN [nodes |-> [ns EXCEPT ![cur].isEndOfWord = FALSE],
          ok |-> TRUE, panicked |-> FALSE]
    ELSE LET c == charToIndex(word[i + 1])
         IN  IF c.panicked
             THEN [nodes |-> ns, ok |-> FALSE, panicked |-> TRUE]
             ELSE IF ns[cur].children[c.idx] = Nil
                  THEN [nodes |-> ns, ok |-> FALSE, panicked |-> FALSE]
                  ELSE DeleteLoopNoFlagCheck(ns, ns[cur].children[c.idx], word, i + 1)

RECURSIVE DeleteLoopKeepsFlag(_, _, _, _)
DeleteLoopKeepsFlag(ns, cur, word, i) ==
    IF i >= Len(word)
    THEN IF ~ns[cur].isEndOfWord
         THEN [nodes |-> ns, ok |-> FALSE, panicked |-> FALSE]
         ELSE [nodes |-> ns, ok |-> TRUE, panicked |-> FALSE]
    ELSE LET c == charToIndex(word[i + 1])
         IN  IF c.panicked
             THEN [nodes |-> ns, ok |-> FALSE, panicked |-> TRUE]
             ELSE IF ns[cur].children[c.idx] = Nil
                  THEN [nodes |-> ns, ok |-> FALSE, panicked |-> FALSE]
                  ELSE DeleteLoopKeepsFlag(ns, ns[cur].children[c.idx], word, i + 1)

\* the loop of Trie.Delete and the statements after it
RECURSIVE DeleteLoop(_, _, _, _)
DeleteLoop(ns, cur, word, i) ==
    IF i >= Len(word)
    THEN IF ~ns[cur].isEndOfWord
         THEN [nodes |-> ns, ok |-> FALSE, panicked |-> FALSE]
         ELSE [nodes |-> [ns EXCEPT ![cur].isEndOfWord = FALSE],
               ok |-> TRUE, panicked |-> FALSE]
    ELSE LET c == charToIndex(word[i + 1])
         IN  IF c.panicked
             THEN [nodes |-> ns, ok |-> FALSE, panicked |-> TRUE]
             ELSE IF ns[cur].children[c.idx] = Nil
                  THEN [nodes |-> ns, ok |-> FALSE, panicked |-> FALSE]
                  ELSE DeleteLoop(ns, ns[cur].children[c.idx], word, i + 1)

\* Trie.Delete: the trie afterwards, the returned bool, or a panic
Delete(t, word) ==
    LET r == DeleteLoop(t.nodes, t.root, word, 0)
    IN  [t |-> [nodes |-> r.nodes, root |-> t.root], ok |-> r.ok, panicked |-> r.panicked]

RECURSIVE collectWordsDFS(_, _, _)
RECURSIVE collectChildren(_, _, _, _)
RECURSIVE collectWordsDFSPostOrder(_, _, _)

collectWordsDFSPostOrder(ns, node, currentWord) ==
    collectChildren(ns, node, currentWord, 0)
        \o (IF ns[node].isEndOfWord THEN <<currentWord>> ELSE <<>>)

\* Trie.collectWordsDFS: the words it appends to *words, in order
collectWordsDFS(ns, node, currentWord) ==
    (IF ns[node].isEndOfWord THEN <<currentWord>> ELSE <<>>)
        \o collectChildren(ns, node, currentWord, 0)

\* the loop of collectWordsDFS over the children from index i on
collectChildren(ns, node, currentWord, i) ==
    IF i >= alphabetSize
    THEN <<>>
    ELSE LET childNode == ns[node].children[i]
         IN  (IF childNode # Nil
              THEN collectWordsDFS(ns, childNode,
                                   Append(currentWord, indexToChar(i).char))
              ELSE <<>>)
                 \o collectChildren(ns, node, currentWord, i + 1)

\* the loop of Trie.CollectAllWordsStartingWith and the DFS after it
RECURSIVE CollectLoop(_, _, _, _)
CollectLoop(ns, cur, prefix, i) ==
    IF i >= Len(prefix)
    THEN [words |-> collectWordsDFS(ns, cur, prefix), panicked |-> FALSE]
    ELSE LET c == charToIndex(prefix[i + 1])
         IN  IF c.panicked
             THEN [words |-> <<>>, panicked |-> TRUE]
             ELSE IF ns[cur].children[c.idx] = Nil
                  THEN [words |-> <<>>, panicked |-> FALSE]
                  ELSE CollectLoop(ns, ns[cur].children[c.idx], prefix, i + 1)

\* Trie.CollectAllWordsStartingWith: the returned words, or a panic
CollectAllWordsStartingWith(t, prefix) == CollectLoop(t.nodes, t.root, prefix, 0)

\* the trie object of the current state
T == [nodes |-> nodes, root |-> root]

\* the lowercase letters offered as input
Letters == LowerA .. (LowerA + NumLetters - 1)

\* the lowercase words offered as input, the empty word included
Words == UNION {[1 .. n -> Letters] : n \in 0 .. MaxWordLen}

\* 'A', the non-lowercase character of the input main names as invalid
BadChar == 65

\* the words offered as input that hold a non-lowercase character
BadWords ==
    {w \in UNION {[1 .. n -> Letters \cup {BadChar}] : n \in 1 .. MaxWordLen} :
        \E i \in 1 .. Len(w) : w[i] = BadChar}

TRet(name, ok, panicked) == [name |-> name, ok |-> ok, panicked |-> panicked]

\* ---------------------------------------------------------------- trie actions
\* trie.Insert(w)
DoTrieInsert ==
    \E w \in Words :
        LET r == Insert(T, w)
        IN  /\ Len(r.t.nodes) <= MaxNodes
            /\ nodes' = r.t.nodes
            /\ root' = r.t.root
            /\ inserted' = inserted \cup {w}
            /\ live' = live \cup {w}
            /\ tret' = TRet("Insert", TRUE, r.panicked)
            /\ UNCHANGED heapVars

\* trie.Search(w)
DoSearch ==
    \E w \in Words :
        LET r == Search(T, w)
        IN  /\ tret' = TRet("Search", r.ok, r.panicked)
            /\ UNCHANGED <<nodes, root, inserted, live>>
            /\ UNCHANGED heapVars

\* trie.StartsWith(p)
DoStartsWith ==
    \E p \in Words :
        LET r == StartsWith(T, p)
        IN  /\ tret' = TRet("StartsWith", r.ok, r.panicked)
            /\ UNCHANGED <<nodes, root, inserted, live>>
            /\ UNCHANGED heapVars

\* trie.Delete(w); whatever it returns, w counts as deleted from then on
DoDelete ==
    \E w \in Words :
        LET r == Delete(T, w)
        IN  /\ nodes' = r.t.nodes
            /\ root' = r.t.root
            /\ live' = live \ {w}
            /\ tret' = TRet("Delete", r.ok, r.panicked)
            /\ UNCHANGED <<inserted>>
            /\ UNCHANGED heapVars

\* trie.CollectAllWordsStartingWith(p)
DoCollect ==
    \E p \in Words :
        LET r == CollectAllWordsStartingWith(T, p)
        IN  /\ tret' = TRet("Collect", Len(r.words) > 0, r.panicked)
            /\ UNCHANGED <<nodes, root, inserted, live>>
            /\ UNCHANGED heapVars

\* trie.Insert(w) with a non-lowercase character in w, the panic recovered by
\* the caller: the nodes created before the panic stay
DoBadInsert ==
    \E w \in BadWords :
        LET r == Insert(T, w)
        IN  /\ Len(r.t.nodes) <= MaxNodes
            /\ nodes' = r.t.nodes
            /\ root' = r.t.root
            /\ inserted' = IF r.panicked THEN inserted ELSE inserted \cup {w}
            /\ live' = IF r.panicked THEN live ELSE live \cup {w}
            /\ tret' = TRet("Insert", TRUE, r.panicked)
            /\ UNCHANGED heapVars

\* trie.Search(w) with a non-lowercase character in w
DoBadSearch ==
    \E w \in BadWords :
        LET r == Search(T, w)
        IN  /\ tret' = TRet("Search", r.ok, r.panicked)
            /\ UNCHANGED <<nodes, root, inserted, live>>
            /\ UNCHANGED heapVars

\* trie.StartsWith(p) with a non-lowercase character in p
DoBadStartsWith ==
    \E p \in BadWords :
        LET r == StartsWith(T, p)
        IN  /\ tret' = TRet("StartsWith", r.ok, r.panicked)
            /\ UNCHANGED <<nodes, root, inserted, live>>
            /\ UNCHANGED heapVars

\* trie.Delete(w) with a non-lowercase character in w
DoBadDelete ==
    \E w \in BadWords :
        LET r == Delete(T, w)
        IN  /\ nodes' = r.t.nodes
            /\ root' = r.t.root
            /\ live' = live \ {w}
            /\ tret' = TRet("Delete", r.ok, r.panicked)
            /\ UNCHANGED <<inserted>>
            /\ UNCHANGED heapVars

\* trie.CollectAllWordsStartingWith(p) with a non-lowercase character in p
DoBadCollect ==
    \E p \in BadWords :
        LET r == CollectAllWordsStartingWith(T, p)
        IN  /\ tret' = TRet("Collect", Len(r.words) > 0, r.panicked)
            /\ UNCHANGED <<nodes, root, inserted, live>>
            /\ UNCHANGED heapVars

HeapStart ==
    /\ items = NewItemHeap.items
    /\ index = NewItemHeap.index
    /\ present = {}
    /\ hret = HRet("New", 0, TRUE, 0, FALSE)

TrieStart ==
    /\ nodes = NewTrie.nodes
    /\ root = NewTrie.root
    /\ inserted = {}
    /\ live = {}
    /\ tret = TRet("New", TRUE, FALSE)

Init == HeapStart /\ TrieStart

NextHeap == DoInit \/ DoInsert \/ DoRemove \/ DoGetMin

NextTrie == DoTrieInsert \/ DoSearch \/ DoStartsWith \/ DoDelete \/ DoCollect

\* the heap with pairwise-distinct values
SpecHeap == Init /\ [][NextHeap]_vars

NextHeapDup == DoInit \/ DoInsertAny \/ DoRemove \/ DoGetMin

\* the heap with values that may be inserted while already present
SpecHeapDup == Init /\ [][NextHeapDup]_vars

NextTrieUpdates == DoTrieInsert \/ DoDelete

\* the trie on lowercase words, updated and queried
SpecTrie == Init /\ [][NextTrie]_vars

\* the trie on lowercase words, its updating calls only
SpecTrieUpdates == Init /\ [][NextTrieUpdates]_vars

NextTrieBad ==
    \/ DoTrieInsert
    \/ DoBadInsert \/ DoBadSearch \/ DoBadStartsWith \/ DoBadDelete \/ DoBadCollect

\* the trie filled with lowercase words and called with words that hold a
\* non-lowercase character, every panic recovered by the caller
SpecTrieBad == Init /\ [][NextTrieBad]_vars

NextTrieBadInsert == DoTrieInsert \/ DoDelete \/ DoBadInsert

\* the trie updated with lowercase words, and Insert called with words that
\* hold a non-lowercase character, every panic recovered by the caller
SpecTrieBadInsert == Init /\ [][NextTrieBadInsert]_vars

\* ---------------------------------------------------------------- heap claims
MinOf(S) == CHOOSE m \in S : \A y \in S : m <= y

IsNonDecreasing(s) == \A p \in 1 .. Len(s) - 1 : s[p] <= s[p + 1]

\* C1: whenever the heap is non-empty after Insert calls of pairwise-distinct
\* values interleaved with Remove calls, GetMin() returns the smallest value
\* that was inserted and not since removed.
C1_GetMinIsSmallest ==
    /\ Len(items) > 0 =>
          GetMin(H) = [panicked |-> FALSE, val |-> MinOf(present)]
    /\ (hret.name = "GetMin" /\ ~hret.panicked) => hret.val = MinOf(present)

\* Insert 5, 3, 8 then Remove(3): GetMin() is 5
C1_Witness ==
    /\ hret.name = "Remove" /\ hret.arg = 3 /\ hret.ok
    /\ present = {5, 8}
    /\ GetMin(H).val = 5

\* C4: Remove(x) of a present x returns true, shrinks the heap by exactly one
\* element, takes x out of items and of index, keeps every other present
\* value in items and in index, and no GetMin returns a value that is not
\* currently present (so x is not returned until it is inserted again).
C4_RemovePresent ==
    [][ /\ (hret'.name = "Remove" /\ hret'.arg \in present) =>
              /\ hret'.ok
              /\ Len(items') = Len(items) - 1
              /\ hret'.arg \notin Range(items')
              /\ hret'.arg \notin DOMAIN index'
              /\ \A v \in present \ {hret'.arg} :
                    v \in Range(items') /\ v \in DOMAIN index'
        /\ (hret'.name = "GetMin" /\ ~hret'.panicked) => hret'.val \in present'
      ]_vars

\* a present value was removed from a heap of at least three, not from the end
C4_Witness ==
    /\ hret.name = "Remove" /\ hret.ok
    /\ Len(items) >= 3
    /\ hret.arg \notin Range(items)
    /\ hret.arg < items[Len(items)]

\* C5: Remove(x) of a value that is not present returns false and leaves
\* items and index exactly as they were, on an empty heap too.
C5_RemoveAbsent ==
    [][ (hret'.name = "Remove" /\ hret'.arg \notin present) =>
            /\ ~hret'.ok
            /\ items' = items
            /\ index' = index
      ]_vars

\* an absent value was asked to be removed from a non-empty heap
C5_Witness ==
    /\ hret.name = "Remove" /\ ~hret.ok
    /\ Len(items) >= 2
    /\ hret.arg \notin Range(items)

\* GetMin() then Remove of the returned value, repeated at most fuel times
\* or until the heap is empty: the values returned, in order
RECURSIVE Drain(_, _)
Drain(h, fuel) ==
    IF fuel = 0 \/ HLen(h) = 0
    THEN <<>>
    ELSE LET m == GetMin(h).val
         IN  <<m>> \o Drain(Remove(h, m).h, fuel - 1)

\* C6: from every state reached by Insert/Remove on pairwise-distinct values,
\* repeating GetMin() and Remove of the returned value until the heap is
\* empty yields the values in non-decreasing order.
C6_HeapSort == IsNonDecreasing(Drain(H, Len(items)))

\* a heap of at least four values, just after a Remove, is drained completely
C6_Witness ==
    /\ hret.name = "Remove" /\ hret.ok
    /\ Len(items) >= 4
    /\ Len(Drain(H, Len(items))) = Len(items)
    /\ Range(Drain(H, Len(items))) = present

\* C12: GetMin() on an empty heap, fresh or emptied by Remove calls, panics
\* with an out-of-range access instead of returning a value; on a non-empty
\* heap it returns the root, items[0], and changes neither items nor index.
C12_GetMinEmptyPanics ==
    [][ /\ hret'.name = "GetMin" =>
              /\ hret'.panicked = (Len(items) = 0)
              /\ Len(items) > 0 => hret'.val = items[1]
              /\ items' = items
              /\ index' = index
        /\ present' = {} => GetMin(H') = [panicked |-> TRUE, val |-> 0]
      ]_vars

\* GetMin() has just panicked on the empty heap
C12_Witness ==
    /\ hret.name = "GetMin" /\ hret.panicked
    /\ items = <<>>
    /\ DOMAIN index = {}

\* C13: with pairwise-distinct values the index and the sequence are in sync
\* in every reachable state: every position p of items has index[items[p]] = p
\* and index has no key that is not in items.
C13_IndexInSync ==
    /\ \A p \in 1 .. Len(items) :
          items[p] \in DOMAIN index /\ index[items[p]] = p - 1
    /\ DOMAIN index = Range(items)

\* a Remove from the middle of a heap of six has just moved other values
C13_Witness ==
    /\ hret.name = "Remove" /\ hret.ok
    /\ Len(items) = 5
    /\ hret.arg < items[5]
    /\ \A p \in 1 .. 5 : index[items[p]] = p - 1

\* position i > 0 of s is not smaller than its parent
HeapOrdered(s) == \A i \in 1 .. Len(s) - 1 : s[GoDiv(i - 1, 2) + 1] <= s[i + 1]

\* C14: with pairwise-distinct values items is in binary min-heap order in
\* every reachable state: items[(i-1)/2] <= items[i] for every i > 0, also
\* after a Remove from the middle whose moved last element travels up or down.
C14_HeapOrder == HeapOrdered(items)

\* the heap 1 5 2 6 7 3 is reached, and Remove(6) on it puts the last
\* element 3 at position 3, where it does not sink and has to travel up
\* past 5
C14_Witness ==
    /\ items = <<1, 5, 2, 6, 7, 3>>
    /\ index[6] = 3
    /\ ~down([items |-> <<1, 5, 2, 3, 7>>, index |-> MapDelete(Swap(H, 3, 5).index, 6)],
             3, 5).moved
    /\ Remove(H, 6).h.items = <<1, 3, 2, 5, 7>>
    /\ Remove(H, 1).h.items = <<2, 5, 3, 6, 7>>

\* C18: Init() changes neither items nor index on the empty heap and on
\* every heap reached by Insert/Remove with pairwise-distinct values.
C18_InitNoOp ==
    /\ HeapInit(H) = H
    /\ HeapInit(NewItemHeap) = NewItemHeap

\* Init() has just been called on a heap of at least three values
C18_Witness ==
    /\ hret.name = "Init"
    /\ Len(items) >= 3
    /\ present = Range(items)

\* the number of positions of s that hold x
Count(s, x) == Cardinality({p \in 1 .. Len(s) : s[p] = x})

\* C15: Insert(x) of a value that is already in the heap is not rejected: it
\* adds one more copy of x; whenever items holds a value twice some position p
\* has no index entry pointing at it; and whenever x is in items while index
\* has no entry for x (as happens after one Remove(x) of a duplicated x),
\* Remove(x) returns false and changes nothing.
C15_DuplicateCorruptsIndex ==
    [][ /\ (hret'.name = "Insert" /\ hret'.arg \in Range(items)) =>
              /\ Len(items') = Len(items) + 1
              /\ Count(items', hret'.arg) = Count(items, hret'.arg) + 1
        /\ \A x \in Range(items') :
              /\ Count(items', x) > 1 =>
                    \E p \in 1 .. Len(items') :
                        items'[p] \notin DOMAIN index' \/ index'[items'[p]] # p - 1
              /\ x \notin DOMAIN index' => Remove(H', x) = [h |-> H', ok |-> FALSE]
      ]_vars

\* after Insert(x) twice and one successful Remove(x), x is still in items,
\* index has no entry for x, and a further Remove(x) returns false
C15_Witness ==
    /\ hret.name = "Remove" /\ hret.ok
    /\ hret.arg \in Range(items)
    /\ hret.arg \notin DOMAIN index
    /\ ~Remove(H, hret.arg).ok

\* ---------------------------------------------------------------- trie claims
IsPrefix(p, w) == Len(p) <= Len(w) /\ SubSeq(w, 1, Len(p)) = p

\* u sorts strictly before v as byte strings
LexLess(u, v) ==
    \E k \in 1 .. Len(v) :
        /\ k <= Len(u) + 1
        /\ \A m \in 1 .. k - 1 : u[m] = v[m]
        /\ (k = Len(u) + 1 \/ u[k] < v[k])

\* for each word p, the words that have p as a prefix
Extensions == [p \in Words |-> {w \in Words : IsPrefix(p, w)}]

IsStrictlySorted(s) == \A k \in 1 .. Len(s) - 1 : LexLess(s[k], s[k + 1])

\* C2: in every state reached by Insert and Delete calls, Search(w) is true
\* exactly for the words w whose latest Insert(w) was not followed by a
\* Delete(w); a word that is only a proper prefix of inserted words is not found.
C2_SearchIffLive ==
    \A w \in Words : Search(T, w) = [ok |-> w \in live, panicked |-> FALSE]

\* after a successful Delete of the empty word the trie holds aa alone: the
\* deleted word and the bare prefix a are misses, aa is a hit
C2_Witness ==
    /\ tret.name = "Delete" /\ tret.ok
    /\ inserted = {<<>>, <<LowerA, LowerA>>}
    /\ live = {<<LowerA, LowerA>>}
    /\ ~Search(T, <<>>).ok
    /\ StartsWith(T, <<LowerA>>).ok /\ ~Search(T, <<LowerA>>).ok
    /\ Search(T, <<LowerA, LowerA>>).ok

C7_StartsWithIffInserted ==
    \A p \in Words :
        StartsWith(T, p) = [ok |-> \E w \in inserted : IsPrefix(p, w), panicked |-> FALSE]

\* C8: Delete(w) leaves Search(v) as it was for every word v other than w,
\* also when one of v, w is a prefix of the other.  (Where Delete(w) leaves
\* the whole trie as it was, every Search reads the same trie as before.)
C8_DeleteLeavesOthers ==
    \A w \in Words :
        \A d \in {Delete(T, w)} :
            \/ d.t = T
            \/ \A v \in Words \ {w} : Search(d.t, v) = Search(T, v)

\* a Delete call has just succeeded on a, and the longer word aa is still found
C8_Witness ==
    /\ tret.name = "Delete" /\ tret.ok
    /\ <<LowerA>> \in inserted /\ <<LowerA>> \notin live
    /\ ~Search(T, <<LowerA>>).ok
    /\ Search(T, <<LowerA, LowerA>>).ok

\* C9: Delete(w) of a word that is not searchable (no path, or a path whose
\* end node is not marked) returns false and leaves the trie as it was, node
\* for node, so that Search, StartsWith and CollectAllWordsStartingWith, which
\* read nothing but the trie, return what they returned before for every input.
C9_DeleteMissing ==
    \A w \in Words :
        ~Search(T, w).ok =>
            \A d \in {Delete(T, w)} :
                /\ ~d.ok /\ ~d.panicked
                /\ d.t = T
                /\ Search(d.t, w) = Search(T, w)
                /\ StartsWith(d.t, w) = StartsWith(T, w)
                /\ CollectAllWordsStartingWith(d.t, w) = CollectAllWordsStartingWith(T, w)

\* a Delete call has just returned false on a trie where a is a path but
\* not a word
C9_Witness ==
    /\ tret.name = "Delete" /\ ~tret.ok
    /\ live = {<<LowerA, LowerA>>}
    /\ StartsWith(T, <<LowerA>>).ok
    /\ ~Delete(T, <<LowerA>>).ok
    /\ ~Delete(T, <<LowerA + 1>>).ok

\* C10: Delete(w) returns true exactly when w is searchable; afterwards
\* Search(w) is false and an immediately repeated Delete(w) returns false.
C10_DeleteSearchable ==
    \A w \in Words :
        \A d \in {Delete(T, w)} :
            /\ ~d.panicked
            /\ d.ok = Search(T, w).ok
            /\ d.ok = (w \in live)
            /\ ~Search(d.t, w).ok
            /\ ~Delete(d.t, w).ok

\* a Delete call has just returned true and its word, once inserted, is no
\* longer found, while another word still is
C10_Witness ==
    /\ tret.name = "Delete" /\ tret.ok
    /\ inserted \ live # {}
    /\ live # {}
    /\ \A w \in inserted \ live : ~Search(T, w).ok /\ ~Delete(T, w).ok

\* C11: in every reachable state, each of Insert, Search, StartsWith, Delete
\* and CollectAllWordsStartingWith panics on every input that holds a
\* character outside 'a'..'z'.
C11_BadInputAlwaysPanics ==
    \A w \in BadWords :
        /\ Insert(T, w).panicked
        /\ Search(T, w).panicked
        /\ StartsWith(T, w).panicked
        /\ Delete(T, w).panicked
        /\ CollectAllWordsStartingWith(T, w).panicked

\* the 0-based position of the first non-lowercase character of w
FirstBad(w) ==
    CHOOSE k \in 0 .. Len(w) - 1 :
        /\ charToIndex(w[k + 1]).panicked
        /\ \A j \in 1 .. k : ~charToIndex(w[j]).panicked

RECURSIVE PathNode(_, _, _, _)
PathNode(ns, cur, W, i) ==
    IF i >= Len(W)
    THEN cur
    ELSE IF ns[cur].children[W[i + 1] - LowerA] = Nil
         THEN Nil
         ELSE PathNode(ns, ns[cur].children[W[i + 1] - LowerA], W, i + 1)

\* C16, as stated: in every state and for every lowercase word W, a path from
\* the root spelling W exists iff some prefix of W, W included, was inserted.
C16_PathIffPrefixOfItInserted ==
    \A W \in Words :
        (PathNode(nodes, root, W, 0) # Nil) <=> (\E v \in inserted : IsPrefix(v, W))

\* C16, amended: in every state reached by Insert and Delete calls and for
\* every lowercase word W, a path from the root spelling W exists iff W is
\* empty or W is a prefix, W included, of some word that was inserted.
C16_PathIffPrefixOfInserted ==
    \A W \in Words :
        (PathNode(nodes, root, W, 0) # Nil) <=>
            (W = <<>> \/ \E v \in inserted : IsPrefix(W, v))

\* a two-letter word was inserted and its one-letter prefix was not: the path
\* of the prefix exists, the path of the other two-letter words on it does not
C16_Witness ==
    \E v \in inserted :
        /\ Len(v) = 2
        /\ \A u \in inserted : ~IsPrefix(u, SubSeq(v, 1, 1))
        /\ PathNode(nodes, root, SubSeq(v, 1, 1), 0) # Nil
        /\ \E W \in Words :
              /\ Len(W) = 2 /\ W # v /\ IsPrefix(SubSeq(v, 1, 1), W)
              /\ PathNode(nodes, root, W, 0) = Nil

\* C17: no step removes a node or changes a child slot that is set; a Delete
\* changes no child slot and no node count, and at most one end-of-word flag;
\* a prefix for which StartsWith returns true before a step has it return true
\* after the step.
C17_TreeOnlyGrows ==
    [][ /\ Len(nodes') >= Len(nodes)
        /\ root' = root
        /\ \A n \in 1 .. Len(nodes) : \A c \in 0 .. alphabetSize - 1 :
              nodes[n].children[c] # Nil => nodes'[n].children[c] = nodes[n].children[c]
        /\ tret'.name = "Delete" =>
              /\ Len(nodes') = Len(nodes)
              /\ \A n \in 1 .. Len(nodes) : nodes'[n].children = nodes[n].children
              /\ Cardinality({n \in 1 .. Len(nodes) :
                                 nodes'[n].isEndOfWord # nodes[n].isEndOfWord}) <= 1
        /\ \/ nodes' = nodes
           \/ \A p \in Words : StartsWith(T, p).ok => StartsWith(T', p).ok
      ]_vars

\* a Delete has just succeeded on a two-letter word whose node is left without
\* children and without its flag: StartsWith of the word is still true
C17_Witness ==
    /\ tret.name = "Delete" /\ tret.ok
    /\ \E w \in inserted \ live :
          /\ Len(w) = 2
          /\ PathNode(nodes, root, w, 0) # Nil
          /\ \A c \in 0 .. alphabetSize - 1 :
                nodes[PathNode(nodes, root, w, 0)].children[c] = Nil
          /\ ~nodes[PathNode(nodes, root, w, 0)].isEndOfWord
          /\ StartsWith(T, w) = [ok |-> TRUE, panicked |-> FALSE]

====
